---- MODULE Spec2Model ----
(***************************************************************************)
(* Model of src/population.py: class Population.                           *)
(*                                                                         *)
(* One call of Population.create_households(land, demand) on a freshly     *)
(* constructed Population is followed statement by statement:              *)
(*   _proportional_fit (assertion, table set-up, the while loop with its   *)
(*   row step and column step), the totals hhnum/wknum/stnum, the four     *)
(*   _get_assignments requests, and the walk over the table cells that     *)
(*   calls add_household.                                                  *)
(* A second specification applies _get_assignments alone to arbitrary      *)
(* capacity mappings and requested counts.                                 *)
(*                                                                         *)
(* Numbers.  The table holds float64 values.  They are modelled as         *)
(* fixed-point numbers: the integer x stands for x / Scale, every division *)
(* is rounded to the nearest representable value, NaN and Inf are two      *)
(* extra values with the IEEE-754 rules the code relies on (0/0 = NaN,     *)
(* NaN propagates, every comparison with NaN is false).                    *)
(***************************************************************************)
EXTENDS Integers, Sequences, FiniteSets, TLC

VARIABLES
    size_freq,    \* self.size_freq : sorted sequence of <<size, freq>>
    fleet_freq,   \* self.fleet_freq: sorted sequence of <<fleet, freq>>
    prog_freq,    \* self.prog_freq : sequence of <<program label, freq>>
    households,   \* self.households
    adults,       \* self.adults
    children,     \* self.children
    individuals,  \* self.individuals
    pc,           \* position in create_households
    err,          \* the exception that ended the call, or "none"
    table,        \* local `table` of _proportional_fit / create_households
    row_err,      \* local `row_err` of _proportional_fit
    hhnum,        \* local of create_households
    wknum,        \* local of create_households
    stnum,        \* local of create_households
    programs,     \* the four assignment lists of create_households
    residences,
    offices,
    schools,
    it,           \* how many elements each of the four iterators has yielded
    capacity,     \* arguments and result of a stand-alone
    total,        \*   _get_assignments(capacity, total) call
    assignment

vars == <<size_freq, fleet_freq, prog_freq, households, adults, children,
          individuals, pc, err, table, row_err, hhnum, wknum, stnum,
          programs, residences, offices, schools, it,
          capacity, total, assignment>>

popVars    == <<households, adults, children, individuals>>
inputVars  == <<size_freq, fleet_freq, prog_freq>>
fitVars    == <<table, row_err>>
totalVars  == <<hhnum, wknum, stnum>>
streamVars == <<programs, residences, offices, schools>>
callVars   == <<capacity, total, assignment>>

(***************************************************************************)
(* Bounds of the input space.                                              *)
(***************************************************************************)
\* largest total of a marginal frequency table (number of households)
MaxTotal == 4
\* largest capacity of the first location of a category
MaxCap == 8
\* largest capacity of a slot in a stand-alone _get_assignments call
MaxSlotCap == 2

\* household-size categories and fleet categories a frequency table may list
SizeLabels  == <<1, 2, 3, 4, 5>>
FleetLabels == <<0, 1, 2>>
\* activity-program labels of prog_freq
ProgLabels  == <<"P1", "P2">>
\* slot identities of a stand-alone _get_assignments call
SlotIds     == {"a", "b", "c"}

(***************************************************************************)
(* float64 arithmetic                                                      *)
(***************************************************************************)
Scale == 1000
NaN == -1
Inf == -2

\* tolerance=0.01 of _proportional_fit, in units of 1/Scale^2 (row_err is a
\* sum of squares of fixed-point numbers)
tolerance == (Scale * Scale) \div 100

RoundDiv(a, b) == (2 * a + b) \div (2 * b)

\* a / b
FDiv(a, b) ==
    IF a = NaN \/ b = NaN THEN NaN
    ELSE IF b = 0 THEN (IF a = 0 THEN NaN ELSE Inf)
    ELSE IF a = Inf THEN (IF b = Inf THEN NaN ELSE Inf)
    ELSE IF b = Inf THEN 0
    ELSE RoundDiv(a * Scale, b)

\* n * q for an integer array element n (a frequency) and a float q
IMul(n, q) ==
    IF q = NaN THEN NaN
    ELSE IF q = Inf THEN (IF n = 0 THEN NaN ELSE Inf)
    ELSE n * q

\* a + b
FAdd(a, b) ==
    IF a = NaN \/ b = NaN THEN NaN
    ELSE IF a = Inf \/ b = Inf THEN Inf
    ELSE a + b

RECURSIVE FSum(_)
FSum(s) == IF s = <<>> THEN 0 ELSE FAdd(Head(s), FSum(Tail(s)))

\* (x - n) * (x - n) for a float x and an integer array element n
SqDiff(x, n) ==
    IF x = NaN THEN NaN
    ELSE IF x = Inf THEN Inf
    ELSE (x - n * Scale) * (x - n * Scale)

\* row_err > tolerance
ErrAboveTolerance(e) ==
    IF e = NaN THEN FALSE
    ELSE IF e = Inf THEN TRUE
    ELSE e > tolerance

\* int(round(x)) of Python 2 for x >= 0: halves are rounded away from zero.
\* Undefined (the call raises) when x is NaN or Inf.
IntRound(x) == (2 * x + Scale) \div (2 * Scale)

(***************************************************************************)
(* _proportional_fit                                                       *)
(***************************************************************************)
Freqs(freq_list) == [k \in 1..Len(freq_list) |-> freq_list[k][2]]

RECURSIVE SumSeq(_)
SumSeq(s) == IF s = <<>> THEN 0 ELSE Head(s) + SumSeq(Tail(s))

\* table = np.ones([n_row, n_col]) with the cells i > j set to 0.0
InitialTable(n_row, n_col) ==
    [i \in 1..n_row |-> [j \in 1..n_col |-> IF i > j THEN 0 ELSE Scale]]

Column(t, j) == [i \in 1..Len(t) |-> t[i][j]]

\* table = row_sum * (table / table.sum(1).reshape(n_row, 1))
RowFit(t, row_sum) ==
    [i \in 1..Len(t) |->
        [j \in 1..Len(t[i]) |-> IMul(row_sum[i], FDiv(t[i][j], FSum(t[i])))]]

\* table = col_sum * (table / table.sum(0).reshape(1, n_col))
ColFit(t, col_sum) ==
    [i \in 1..Len(t) |->
        [j \in 1..Len(t[i]) |->
            IMul(col_sum[j], FDiv(t[i][j], FSum(Column(t, j))))]]

\* row_diff = table.sum(1) - row_sum ; row_err = (row_diff*row_diff).sum()
RowErr(t, row_sum) ==
    FSum([i \in 1..Len(t) |-> SqDiff(FSum(t[i]), row_sum[i])])

\* table.sum()
TableSum(t) == FSum([i \in 1..Len(t) |-> FSum(t[i])])

(***************************************************************************)
(* _rand_assignment and _get_assignments                                   *)
(***************************************************************************)
RECURSIVE SumOver(_, _)
SumOver(f, S) ==
    IF S = {} THEN 0
    ELSE LET x == CHOOSE y \in S : TRUE IN f[x] + SumOver(f, S \ {x})

\* capsum = sum(capacity.values())
CapSum(cap) == SumOver(cap, DOMAIN cap)

\* a slip: the assertion admits one slot too many
CapacityOffByOne(cap, tot) == CapSum(cap) >= tot - 1

\* assert capsum >= total
CapacityOK(cap, tot) == CapSum(cap) >= tot

\* a slip: every slot is repeated once more than its capacity
RepeatsOneMore(cap) == [s \in DOMAIN cap |-> cap[s] + 1]

\* how often each slot is put into slot_assginment:
\* itertools.repeat(slot, capacity) yields nothing for capacity <= 0
Repeats(cap) == [s \in DOMAIN cap |-> IF cap[s] > 0 THEN cap[s] ELSE 0]

\* every order random.shuffle can leave a list in that holds slot s pool[s] times
RECURSIVE Shuffles(_)
Shuffles(pool) ==
    IF \A s \in DOMAIN pool : pool[s] = 0 THEN {<<>>}
    ELSE UNION {{<<s>> \o rest : rest \in Shuffles([pool EXCEPT ![s] = @ - 1])} :
                s \in {x \in DOMAIN pool : pool[x] > 0}}

\* the lists _rand_assignment(capacity) can return
RandAssignment(cap) == Shuffles(Repeats(cap))

\* assignment[0:total] for total >= 0
Slice(a, tot) == SubSeq(a, 1, IF tot < Len(a) THEN tot ELSE Len(a))

\* the lists _get_assignments(capacity, total) can return once its assertion passed
GetAssignments(cap, tot) == {Slice(a, tot) : a \in RandAssignment(cap)}

(***************************************************************************)
(* Collaborators: utils, demand, land                                      *)
(***************************************************************************)
\* utils.ndrange(n_row, n_col): the index pairs <<i, j>>, the last index fastest
ndrange(n_row, n_col) ==
    [k \in 1..(n_row * n_col) |-> <<((k - 1) \div n_col) + 1, ((k - 1) % n_col) + 1>>]

\* demand.programs[label]: the activity tuple of a program
DemandProgram(label) == <<label>>

\* demand.get_activity(name)
GetActivity(name) == name

\* the location identities of a category: two dwellings, one work place, one school
Locations(category) ==
    IF category = "home" THEN {<<category, 1>>, <<category, 2>>}
    ELSE {<<category, 1>>}

\* the mappings land.get_capacities(category) may return: the first location
\* holds up to MaxCap places, a second one at most one place
LandCapacities(category) ==
    {[s \in Locations(category) |-> IF s[2] = 1 THEN c ELSE d] :
        c \in 0..MaxCap, d \in 0..1}

\* program_freq = dict((demand.programs[id_], freq) for id_, freq in self.prog_freq)
ProgramFreq(pf) ==
    [p \in {DemandProgram(pf[k][1]) : k \in 1..Len(pf)} |->
        LET k == CHOOSE n \in 1..Len(pf) :
                    /\ DemandProgram(pf[n][1]) = p
                    /\ \A m \in (n + 1)..Len(pf) : DemandProgram(pf[m][1]) # p
        IN  pf[k][2]]

(***************************************************************************)
(* add_household and the totals of create_households                      *)
(***************************************************************************)
\* the rule of the comment in create_households: one worker in a household of
\* one, two workers in every larger household
WorkersOfComment(size) == IF size > 1 THEN 2 ELSE size

\* wknum = 2 if size > 3 else size
Workers(size) == IF size > 3 THEN 2 ELSE size

\* stnum = 0 if size < 3 else size - 2
Students(size) == IF size < 3 THEN 0 ELSE size - 2

\* wknum = sum((2 if size > 3 else size) * freq for size, freq in self.size_freq)
TotalWorkers(sf) == SumSeq([k \in 1..Len(sf) |-> Workers(sf[k][1]) * sf[k][2]])

\* stnum = sum((0 if size < 3 else size - 2) * freq for size, freq in self.size_freq)
TotalStudents(sf) == SumSeq([k \in 1..Len(sf) |-> Students(sf[k][1]) * sf[k][2]])

NRow(t) == Len(t)
NCol(t) == IF t = <<>> THEN 0 ELSE Len(t[1])

\* The cells visited by the two nested loops of create_households, each cell
\* <<i, j>> once per household it creates: int(round(table[i, j])) times.
RECURSIVE WalkFrom(_, _)
WalkFrom(t, k) ==
    IF k > NRow(t) * NCol(t) THEN <<>>
    ELSE LET ij == ndrange(NRow(t), NCol(t))[k]
         IN  [n \in 1..IntRound(t[ij[1]][ij[2]]) |-> ij] \o WalkFrom(t, k + 1)

WalkOrder(t) == WalkFrom(t, 1)

Min(a, b) == IF a < b THEN a ELSE b

(***************************************************************************)
(* Entities                                                                *)
(***************************************************************************)
\* Household(id_, size, fleet, residence, program)
Household(id, size, fleet, residence, program) ==
    [id |-> id, size |-> size, fleet |-> fleet, residence |-> residence,
     program |-> program, adults |-> <<>>, children |-> <<>>]

\* Adult(id_, residence, office, program)
Adult(id, residence, office, program) ==
    [kind |-> "Adult", id |-> id, residence |-> residence, office |-> office,
     program |-> program]

\* Child(id_, residence, school, program)
Child(id, residence, school, program) ==
    [kind |-> "Child", id |-> id, residence |-> residence, school |-> school,
     program |-> program]

\* utils.add_object2pool(cls, pool, *args): the identity given to the new object
PoolId(pool) == Len(pool)

(***************************************************************************)
(* The frequency specifications a Population can be constructed with       *)
(***************************************************************************)
RECURSIVE FreqVectors(_, _)
\* the sequences of n frequencies whose total is at most t
FreqVectors(n, t) ==
    IF n = 0 THEN {<<>>}
    ELSE UNION {{<<f>> \o rest : rest \in FreqVectors(n - 1, t - f)} : f \in 0..t}

\* sorted(freq_list) for the first n labels (the labels are in ascending order)
FreqLists(labels) ==
    UNION {{[k \in 1..n |-> <<labels[k], v[k]>>] : v \in FreqVectors(n, MaxTotal)} :
           n \in 0..Len(labels)}

\* prog_freq lists the first n program labels: the first program is frequent
\* enough for every household, a second one is chosen once
ProgFreqLists ==
    {[k \in 1..n |-> <<ProgLabels[k], IF k = 1 THEN MaxTotal ELSE 1>>] :
        n \in 0..Len(ProgLabels)}

NoIterators == [program |-> 0, residence |-> 0, office |-> 0, school |-> 0]

\* Population.__init__ has run; the locals of create_households are not yet set
Constructed ==
    /\ households = <<>>
    /\ adults = <<>>
    /\ children = <<>>
    /\ individuals = <<>>
    /\ err = "none"
    /\ table = <<>>
    /\ row_err = Inf
    /\ hhnum = 0
    /\ wknum = 0
    /\ stnum = 0
    /\ programs = <<>>
    /\ residences = <<>>
    /\ offices = <<>>
    /\ schools = <<>>
    /\ it = NoIterators
    /\ assignment = <<>>

Init ==
    /\ size_freq \in FreqLists(SizeLabels)
    /\ fleet_freq \in FreqLists(FleetLabels)
    /\ prog_freq \in ProgFreqLists
    /\ pc = "create"
    /\ capacity = <<>>
    /\ total = 0
    /\ Constructed

(***************************************************************************)
(* create_households, lines 94-97, and _proportional_fit                   *)
(***************************************************************************)
row_sum == Freqs(fleet_freq)
col_sum == Freqs(size_freq)

\* a slip: the sizes of the two arrays are compared, not their sums
MarginalsSameSize(rs, cs) == Len(rs) = Len(cs)

\* assert row_sum.sum() == col_sum.sum()
MarginalsOK(rs, cs) == SumSeq(rs) = SumSeq(cs)

Raise(exception) ==
    /\ pc' = "failed"
    /\ err' = exception

\* lines 94-36: build the marginal arrays, enter _proportional_fit, check the
\* precondition, set up the table
ProportionalFitEnter ==
    /\ pc = "create"
    /\ IF MarginalsOK(row_sum, col_sum)
       THEN /\ table' = InitialTable(Len(row_sum), Len(col_sum))
            /\ row_err' = Inf
            /\ pc' = "while"
            /\ err' = err
       ELSE /\ Raise("AssertionError: Row subsum and column subsum are not equal.")
            /\ UNCHANGED fitVars
    /\ UNCHANGED <<inputVars, popVars, totalVars, streamVars, it, callVars>>

\* line 38 (test passes) and line 40
RowStep ==
    /\ pc = "while"
    /\ ErrAboveTolerance(row_err)
    /\ table' = RowFit(table, row_sum)
    /\ pc' = "column"
    /\ UNCHANGED <<inputVars, popVars, err, row_err, totalVars, streamVars, it, callVars>>

\* lines 42-45
ColumnStep ==
    /\ pc = "column"
    /\ table' = ColFit(table, col_sum)
    /\ row_err' = RowErr(table', row_sum)
    /\ pc' = "while"
    /\ UNCHANGED <<inputVars, popVars, err, totalVars, streamVars, it, callVars>>

\* line 38 (test fails), line 46, and lines 99-105 of create_households
FitReturn ==
    /\ pc = "while"
    /\ ~ErrAboveTolerance(row_err)
    /\ IF TableSum(table) \in {NaN, Inf}
       THEN \* int(round(nan)) raises ValueError, int(round(inf)) OverflowError
            /\ Raise(IF TableSum(table) = NaN THEN "ValueError" ELSE "OverflowError")
            /\ UNCHANGED totalVars
       ELSE /\ hhnum' = IntRound(TableSum(table))
            /\ wknum' = TotalWorkers(size_freq)
            /\ stnum' = TotalStudents(size_freq)
            /\ pc' = "programs"
            /\ err' = err
    /\ UNCHANGED <<inputVars, popVars, fitVars, streamVars, it, callVars>>

(***************************************************************************)
(* create_households, lines 107-118: the four assignment requests          *)
(***************************************************************************)
CapacityError == "AssertionError: available alternatives < required slots"

\* lines 107-108
RequestPrograms ==
    /\ pc = "programs"
    /\ LET cap == ProgramFreq(prog_freq) IN
       IF CapacityOK(cap, hhnum)
       THEN /\ programs' \in GetAssignments(cap, hhnum)
            /\ pc' = "residences"
            /\ err' = err
       ELSE /\ Raise(CapacityError)
            /\ programs' = programs
    /\ UNCHANGED <<inputVars, popVars, fitVars, totalVars, residences, offices,
                   schools, it, callVars>>

\* line 110
RequestResidences ==
    /\ pc = "residences"
    /\ \E cap \in LandCapacities("home") :
       IF CapacityOK(cap, hhnum)
       THEN /\ residences' \in GetAssignments(cap, hhnum)
            /\ pc' = "offices"
            /\ err' = err
       ELSE /\ Raise(CapacityError)
            /\ residences' = residences
    /\ UNCHANGED <<inputVars, popVars, fitVars, totalVars, programs, offices,
                   schools, it, callVars>>

\* line 112
RequestOffices ==
    /\ pc = "offices"
    /\ \E cap \in LandCapacities("work") :
       IF CapacityOK(cap, wknum)
       THEN /\ offices' \in GetAssignments(cap, wknum)
            /\ pc' = "schools"
            /\ err' = err
       ELSE /\ Raise(CapacityError)
            /\ offices' = offices
    /\ UNCHANGED <<inputVars, popVars, fitVars, totalVars, programs, residences,
                   schools, it, callVars>>

\* lines 114-118
RequestSchools ==
    /\ pc = "schools"
    /\ \E cap \in LandCapacities("school") :
       IF CapacityOK(cap, stnum)
       THEN /\ schools' \in GetAssignments(cap, stnum)
            /\ pc' = "walk"
            /\ err' = err
       ELSE /\ Raise(CapacityError)
            /\ schools' = schools
    /\ UNCHANGED <<inputVars, popVars, fitVars, totalVars, programs, residences,
                   offices, it, callVars>>

(***************************************************************************)
(* create_households, lines 120-124, and add_household                     *)
(***************************************************************************)
\* One call add_household(size, fleet, demand, it_program, it_residence,
\* it_office, it_school).  An exhausted iterator raises StopIteration at the
\* .next() that finds it empty; what was appended before stays appended.
AddHouseholdCall(size, fleet) ==
    IF it.residence >= Len(residences)
    THEN \* it_residence.next() raises before anything is created
         /\ Raise("StopIteration")
         /\ UNCHANGED <<popVars, it>>
    ELSE IF it.program >= Len(programs)
    THEN \* it_residence has yielded, it_program.next() raises
         /\ Raise("StopIteration")
         /\ it' = [it EXCEPT !.residence = @ + 1]
         /\ UNCHANGED popVars
    ELSE
      LET residence     == residences[it.residence + 1]
          program       == programs[it.program + 1]
          household     == Household(PoolId(households), size, fleet, residence, program)
          wk            == Workers(size)
          st            == Students(size)
          adult_program == <<GetActivity("home"), GetActivity("work")>> \o household.program
          child_program == <<GetActivity("home"), GetActivity("school")>> \o household.program
          \* the adults created before it_office runs out
          nAdults       == Min(wk, Len(offices) - it.office)
          newAdults     == [k \in 1..nAdults |->
                              Adult(PoolId(individuals) + k - 1, household.residence,
                                    offices[it.office + k], adult_program)]
          \* the children created before it_school runs out
          nChildren     == IF nAdults < wk THEN 0
                           ELSE Min(st, Len(schools) - it.school)
          newChildren   == [k \in 1..nChildren |->
                              Child(PoolId(individuals) + nAdults + k - 1,
                                    household.residence, schools[it.school + k],
                                    child_program)]
      IN  /\ households' = Append(households,
                                  [household EXCEPT !.adults = newAdults,
                                                    !.children = newChildren])
          /\ individuals' = individuals \o newAdults \o newChildren
          /\ adults' = adults \o newAdults
          /\ children' = children \o newChildren
          /\ it' = [program   |-> it.program + 1,
                    residence |-> it.residence + 1,
                    office    |-> it.office + nAdults,
                    school    |-> it.school + nChildren]
          /\ IF nAdults < wk \/ nChildren < st
             THEN Raise("StopIteration")
             ELSE UNCHANGED <<pc, err>>

\* the next iteration of the loops of lines 120-122 and its add_household call
AddHousehold ==
    /\ pc = "walk"
    /\ Len(households) < Len(WalkOrder(table))
    /\ LET ij == WalkOrder(table)[Len(households) + 1]
       IN  AddHouseholdCall(size_freq[ij[2]][1], fleet_freq[ij[1]][1])
    /\ UNCHANGED <<inputVars, fitVars, totalVars, streamVars, callVars>>

\* the loops of lines 120-122 are exhausted: create_households returns
CreateReturn ==
    /\ pc = "walk"
    /\ Len(households) = Len(WalkOrder(table))
    /\ pc' = "done"
    /\ UNCHANGED <<inputVars, popVars, err, fitVars, totalVars, streamVars, it, callVars>>

Next ==
    \/ ProportionalFitEnter
    \/ RowStep
    \/ ColumnStep
    \/ FitReturn
    \/ RequestPrograms
    \/ RequestResidences
    \/ RequestOffices
    \/ RequestSchools
    \/ AddHousehold
    \/ CreateReturn

Spec == Init /\ [][Next]_vars

(***************************************************************************)
(* _get_assignments on its own                                             *)
(***************************************************************************)
InitSampler ==
    /\ size_freq = <<>>
    /\ fleet_freq = <<>>
    /\ prog_freq = <<>>
    /\ pc = "call"
    /\ capacity \in [SlotIds -> 0..MaxSlotCap]
    /\ total \in 0..(MaxSlotCap * Cardinality(SlotIds) + 1)
    /\ Constructed

\* assignment = self._get_assignments(capacity, total)
GetAssignmentsCall ==
    /\ pc = "call"
    /\ IF CapacityOK(capacity, total)
       THEN /\ assignment' \in GetAssignments(capacity, total)
            /\ pc' = "returned"
            /\ err' = err
       ELSE /\ Raise(CapacityError)
            /\ assignment' = assignment
    /\ UNCHANGED <<inputVars, popVars, fitVars, totalVars, streamVars, it,
                   capacity, total>>

NextSampler == GetAssignmentsCall

SpecSampler == InitSampler /\ [][NextSampler]_vars

\* _proportional_fit on its own, on the tables of two fleet categories by two
\* size categories: create_households up to the return of the fitted table.
\* The loop is sequential code: it takes its next step whenever it has one.
InitFit ==
    /\ Init
    /\ prog_freq = <<>>
    /\ Len(fleet_freq) = 2
    /\ Len(size_freq) = 2

NextFit ==
    \/ ProportionalFitEnter
    \/ RowStep
    \/ ColumnStep
    \/ FitReturn

SpecFit == InitFit /\ [][NextFit]_vars /\ WF_vars(NextFit)

(***************************************************************************)
(* Properties                                                              *)
(***************************************************************************)
Count(seq, x) == Cardinality({k \in 1..Len(seq) : seq[k] = x})

RowTotal == SumSeq([k \in 1..Len(fleet_freq) |-> fleet_freq[k][2]])
ColTotal == SumSeq([k \in 1..Len(size_freq) |-> size_freq[k][2]])

\* the places the capacity mapping of the call holds
Available == SumOver(capacity, DOMAIN capacity)

\* C1: when total <= sum of the capacities, _get_assignments returns a sequence
\* of exactly total slot identities of the mapping, and no slot identity occurs
\* in it more often than its capacity, whatever order the shuffle produced.
C1_WithinCapacity ==
    (pc # "call" /\ total <= Available) =>
        /\ pc = "returned"
        /\ Len(assignment) = total
        /\ \A k \in 1..Len(assignment) : assignment[k] \in DOMAIN capacity
        /\ \A s \in DOMAIN capacity : Count(assignment, s) <= capacity[s]

\* a returned draw that uses up all the capacity of a mapping with several slots
C1_Witness ==
    /\ pc = "returned"
    /\ total = Available
    /\ total >= 4
    /\ \E s \in DOMAIN capacity : Count(assignment, s) = 2 /\ assignment[1] # s

\* C2: when total > sum of the capacities, _get_assignments fails with the
\* capacity error and returns no sequence.
C2_CapacityError ==
    (pc # "call" /\ total > Available) =>
        /\ pc = "failed"
        /\ err = CapacityError
        /\ assignment = <<>>

\* a failed request for one more than the capacities hold
C2_Witness ==
    /\ pc = "failed"
    /\ Available >= 2
    /\ total = Available + 1

\* C9: when the totals of the two marginals differ, the call fails at the
\* assertion of _proportional_fit: no table is built, no rescaling step runs, no
\* assignment is requested and no entity is created.
C9_UnequalTotalsFailFirst ==
    (pc # "create" /\ RowTotal # ColTotal) =>
        /\ pc = "failed"
        /\ err = "AssertionError: Row subsum and column subsum are not equal."
        /\ table = <<>>
        /\ row_err = Inf
        /\ <<hhnum, wknum, stnum>> = <<0, 0, 0>>
        /\ <<programs, residences, offices, schools>> = <<<<>>, <<>>, <<>>, <<>>>>
        /\ it = NoIterators
        /\ <<households, adults, children, individuals>> = <<<<>>, <<>>, <<>>, <<>>>>

\* the call has failed on marginals with different, non-zero totals
C9_Witness ==
    /\ pc = "failed"
    /\ RowTotal # ColTotal
    /\ RowTotal > 0
    /\ ColTotal > 0

\* the statements of create_households after the totals have been computed
AfterTotals == {"programs", "residences", "offices", "schools", "walk", "done"}

\* the k-th household was built by an add_household call that returned
Returned(k) == k < Len(households) \/ pc # "failed"

\* <<workers, students>> per household size as the specification enumerates them
EnumeratedOccupancy == <<<<1, 0>>, <<2, 0>>, <<3, 0>>, <<2, 2>>, <<2, 3>>>>

\* <<workers, students>> per household size with size 3 -> (3, 1)
AmendedOccupancy == <<<<1, 0>>, <<2, 0>>, <<3, 1>>, <<2, 2>>, <<2, 3>>>>

OccupancyIs(occ) ==
    /\ \A k \in 1..Len(households) :
          Returned(k) =>
              <<Len(households[k].adults), Len(households[k].children)>>
                  = occ[households[k].size]
    /\ pc \in AfterTotals =>
          /\ wknum = SumSeq([k \in 1..Len(size_freq) |->
                                occ[size_freq[k][1]][1] * size_freq[k][2]])
          /\ stnum = SumSeq([k \in 1..Len(size_freq) |->
                                occ[size_freq[k][1]][2] * size_freq[k][2]])

C4_ExactCounts ==
    pc = "done" =>
        /\ hhnum = RowTotal
        /\ Len(households) = hhnum
        /\ Len(adults) = wknum
        /\ Len(children) = stnum

\* C5: _proportional_fit always terminates: it returns a table or fails.
C5_FitTerminates == <>(pc \notin {"create", "while", "column"})

\* C6: every cell of the table below the diagonal (row index > column index) is
\* zero, initially and after every row step and column step; no cell on or above
\* the diagonal is a negative number.
C6_StructuralZeros ==
    \A i \in 1..Len(table) : \A j \in 1..Len(table[i]) :
        /\ i > j => table[i][j] = 0
        /\ i <= j => (table[i][j] \in {NaN, Inf} \/ table[i][j] >= 0)

\* C7: whenever create_households fails, the four lists of the Population are as
\* they were before the call (empty).
C7_AllOrNothing ==
    pc = "failed" =>
        <<households, adults, children, individuals>> = <<<<>>, <<>>, <<>>, <<>>>>

\* C8: with empty marginals or all frequencies zero, _proportional_fit returns
\* and create_households completes with no household, adult or child: the call
\* never fails.
C8_DegenerateInputsSucceed ==
    (RowTotal = 0 /\ ColTotal = 0) =>
        /\ pc # "failed"
        /\ <<households, adults, children, individuals>> = <<<<>>, <<>>, <<>>, <<>>>>

\* C10: the k-th household holds the k-th residence and the k-th program, the
\* m-th adult the m-th office, the n-th child the n-th school, and no iterator
\* is asked for an element past the end of its list.
C10_StreamsInOrder ==
    /\ err # "StopIteration"
    /\ Len(households) <= Len(residences)
    /\ Len(households) <= Len(programs)
    /\ Len(adults) <= Len(offices)
    /\ Len(children) <= Len(schools)
    /\ it = [program |-> Len(households), residence |-> Len(households),
             office |-> Len(adults), school |-> Len(children)]
    /\ \A k \in 1..Min(Len(households), Len(residences)) :
          households[k].residence = residences[k]
    /\ \A k \in 1..Min(Len(households), Len(programs)) :
          households[k].program = programs[k]
    /\ \A m \in 1..Min(Len(adults), Len(offices)) : adults[m].office = offices[m]
    /\ \A n \in 1..Min(Len(children), Len(schools)) : children[n].school = schools[n]

====
